---- MODULE Spec2Model ----
(***************************************************************************)
(* A model of the two NetBox scripts of netbox-automation:                 *)
(*   scripts/cable_update.py      CableUpdate.run, remove_old_cables       *)
(*   scripts/interface_update.py  InterfaceUpdate.run                      *)
(*                                                                         *)
(* The inventory store is the part of NetBox the scripts read and write:   *)
(* Interface rows (with their cable reference, from which _cable_peer      *)
(* follows) and Cable rows (termination_a, termination_b).  Cable.save()   *)
(* and Cable.delete() are the only cable mutations the scripts issue; the  *)
(* scripts call save() directly, so no form validation runs before it.     *)
(* save() and delete() are modelled as always succeeding: constraints the   *)
(* database may enforce on Cable rows are outside the scripts and are not  *)
(* modelled.  Python dicts are iterated in an order the model leaves open. *)
(***************************************************************************)
EXTENDS Naturals, Sequences, FiniteSets, TLC

VARIABLES
    job,                   \* which script this behaviour runs: "cable" or "interface"
    run,                   \* number of the current invocation of run()
    pc,                    \* position inside run()
    di,                    \* index of the device the outer for loop is at
    log,                   \* notifications emitted by the current invocation
    prevLog,               \* notifications the previous invocation emitted
    data_device_name,      \* data["device_name"]: the set of device names the regex matches
    \* ---- cable_update.py
    cables,                \* Cable rows: <<id, termination_a, termination_b>>
    ifcable,               \* Interface.cable of every interface (a Cable row or NoCable)
    nextId,                \* next primary key a saved Cable gets
    napalm_lldp,           \* get_lldp_neighbors of each device: local name -> <<hostname, port>>
    non_existent,          \* data["non_existent"]
    todo,                  \* entries of the report the inner for loop has not reached yet
    lldp_interface_names,  \* the list of that name in run()
    cur,                   \* the entry whose stale cable was just deleted (between 148 and 168)
    old_cable_interfaces,  \* the evaluated queryset of remove_old_cables
    oi,                    \* index into old_cable_interfaces
    done,                  \* what the last finished neighbor entry of this device did
    startCables,           \* the Cable rows as they were when this invocation started
    kept,                  \* cables of this device that lines 131-144 skipped past undeleted
    cleanupMark,           \* Len(log) when remove_old_cables was entered
    \* ---- interface_update.py
    netbox,                \* Interface rows of the interface job: <<device, name>> -> row or Absent
    napalm_interfaces,     \* get_interfaces of each device: name -> [description, mac_address]
    ignore_interfaces,     \* data["ignore_interfaces"]
    itodo,                 \* snapshot entries the inner for loop has not reached yet
    startNetbox            \* the Interface rows as they were when this invocation started

vars == <<job, run, pc, di, log, prevLog, data_device_name,
          cables, ifcable, nextId, napalm_lldp, non_existent, todo,
          lldp_interface_names, cur, old_cable_interfaces, oi, done,
          startCables, kept, cleanupMark,
          netbox, napalm_interfaces, ignore_interfaces, itodo, startNetbox>>

cableVars == <<cables, ifcable, nextId, napalm_lldp, non_existent, todo,
               lldp_interface_names, cur, old_cable_interfaces, oi, done,
               startCables, kept, cleanupMark>>

ifaceVars == <<netbox, napalm_interfaces, ignore_interfaces, itodo, startNetbox>>

----------------------------------------------------------------------------
(* Bounds and the universe of names                                        *)

\* How many times in a row run() is invoked with the same inputs.
MaxRuns == 2

\* Devices of the store, in the order Device.objects.filter(...) yields them.
DeviceOrder == <<"D", "E">>
Devices == {DeviceOrder[k] : k \in 1..Len(DeviceOrder)}

\* Interface names, in the order Interface querysets yield them.
NameOrder == <<"eth0", "eth1", "eth2">>

\* Interface rows of the cable job's store.  E has no "eth1" and there is no
\* device "F", so that a report can name a missing local interface, a missing
\* remote interface and a missing remote device.
AllInterfaces == {<<"D", "eth0">>, <<"D", "eth1">>, <<"D", "eth2">>, <<"E", "eth0">>}

\* Local interface names a neighbor report may list.
ReportNames == {"eth0", "eth1"}

\* <<hostname, port>> values a neighbor report may give.
Remotes == {<<"D", "eth0">>, <<"D", "eth1">>, <<"E", "eth0">>, <<"E", "eth1">>, <<"F", "eth0">>}

NoCable == <<>>
NoEntry == <<>>

----------------------------------------------------------------------------
(* The store operations cable_update.py uses                               *)

Ends(c) == {c[2], c[3]}

\* The Cable rows an interface terminates.
CablesOf(i) == {c \in cables : i \in Ends(c)}

\* Interface._cable_peer: the other termination of the interface's cable.
CablePeer(fk, i) == LET c == fk[i] IN IF c[2] = i THEN c[3] ELSE c[2]

\* devices = Device.objects.filter(name__regex=data["device_name"])
SelectedDevices(sel) == SelectSeq(DeviceOrder, LAMBDA d : d \in sel)

\* Cable.delete(): the row goes, and both terminations drop their reference.
CablesAfterDelete(cs, c) == cs \ {c}
IfcableAfterDelete(fk, c) ==
    [i \in DOMAIN fk |-> IF i \in Ends(c) THEN NoCable ELSE fk[i]]

\* Cable(termination_a=a, termination_b=b).save(): a new row, which both
\* terminations now reference.
NewCable(id, a, b) == <<id, a, b>>
CablesAfterSave(cs, c) == cs \cup {c}
IfcableAfterSave(fk, c) ==
    [i \in DOMAIN fk |-> IF i \in Ends(c) THEN c ELSE fk[i]]

\* A notification: self.log_success / log_info / log_warning.
Note(kind, device, a, b) == [kind |-> kind, device |-> device, a |-> a, b |-> b]

----------------------------------------------------------------------------
(* Initial states of the cable job                                         *)

RECURSIVE SetToSeq(_)
SetToSeq(S) == IF S = {} THEN <<>>
               ELSE LET x == CHOOSE y \in S : TRUE IN <<x>> \o SetToSeq(S \ {x})

\* Position of an interface in a fixed enumeration, to orient initial cables.
IfaceSeq == SetToSeq(AllInterfaces)
IfacePos(i) == CHOOSE k \in 1..Len(IfaceSeq) : IfaceSeq[k] = i

InitialPairs == {p \in AllInterfaces \X AllInterfaces : IfacePos(p[1]) < IfacePos(p[2])}

\* Stores in which every interface is an endpoint of at most one cable.
InitialPairSets ==
    {P \in SUBSET InitialPairs :
        \A p \in P, q \in P : p # q => {p[1], p[2]} \cap {q[1], q[2]} = {}}

NumberPairs(P) ==
    LET s == SetToSeq(P) IN {<<k, s[k][1], s[k][2]>> : k \in 1..Len(s)}

InitialIfcable(cs) ==
    [i \in AllInterfaces |->
        IF \E c \in cs : i \in Ends(c) THEN CHOOSE c \in cs : i \in Ends(c) ELSE NoCable]

\* A neighbor report: a mapping keyed by local interface name.
Reports == UNION {[S -> Remotes] : S \in SUBSET ReportNames}

NoDone == [local |-> NoEntry, remote |-> NoEntry, outcome |-> "none", mark |-> 0,
           old |-> NoCable, rows |-> {}, refs |-> <<>>]

IfaceIdle ==
    /\ netbox = <<>>
    /\ napalm_interfaces = <<>>
    /\ ignore_interfaces = ""
    /\ itodo = {}
    /\ startNetbox = <<>>

InitCable ==
    /\ job = "cable"
    /\ run = 1
    /\ pc = "devices"
    /\ di = 1
    /\ log = <<>>
    /\ prevLog = <<>>
    /\ data_device_name \in SUBSET Devices
    /\ \E P \in InitialPairSets :
          /\ cables = NumberPairs(P)
          /\ ifcable = InitialIfcable(NumberPairs(P))
          /\ nextId = Cardinality(P) + 1
    /\ napalm_lldp \in {r \in [Devices -> Reports] :
                          \A d \in Devices \ data_device_name : r[d] = <<>>}
    /\ non_existent \in BOOLEAN
    /\ todo = {}
    /\ lldp_interface_names = {}
    /\ cur = NoEntry
    /\ old_cable_interfaces = <<>>
    /\ oi = 1
    /\ done = NoDone
    /\ startCables = cables
    /\ kept = {}
    /\ cleanupMark = 0
    /\ IfaceIdle

----------------------------------------------------------------------------
(* CableUpdate.run                                                         *)

devices == SelectedDevices(data_device_name)
device == devices[di]

\* Interface.objects.get(device=..., name=...) succeeds
InterfaceExists(d, n) == <<d, n>> \in AllInterfaces

\* Device.objects.get(name=...) succeeds
DeviceExists(d) == d \in Devices

remote_of(n) == napalm_lldp[device][n]

\* lines 116-120: the persisted far end is the reported one
PeerMatches(i, remote) ==
    /\ CablePeer(ifcable, i)[2] = remote[2]
    /\ CablePeer(ifcable, i)[1] = remote[1]

\* lines 114-124
delete_cable(i, remote) == ifcable[i] # NoCable /\ ~PeerMatches(i, remote)

\* lines 126-130: both lookups succeed
RemoteResolves(remote) ==
    DeviceExists(remote[1]) /\ InterfaceExists(remote[1], remote[2])

Finished(n, outcome, mark) ==
    [local |-> <<device, n>>, remote |-> remote_of(n), outcome |-> outcome, mark |-> mark,
     old |-> IF InterfaceExists(device, n) THEN ifcable[<<device, n>>] ELSE NoCable,
     rows |-> cables, refs |-> ifcable]

\* line 91-96: the outer loop takes the next device and fetches its report
NextDevice ==
    /\ job = "cable" /\ pc = "devices" /\ di <= Len(devices)
    /\ pc' = "entry"
    /\ todo' = DOMAIN napalm_lldp[device]
    /\ lldp_interface_names' = {}
    /\ done' = NoDone
    /\ kept' = {}
    /\ UNCHANGED <<job, prevLog, run, di, log, data_device_name, cables, ifcable, nextId,
                   napalm_lldp, non_existent, cur, old_cable_interfaces, oi,
                   startCables, cleanupMark, ifaceVars>>

\* lines 101-112: the local interface is not in the store
LocalNotFound ==
    /\ job = "cable" /\ pc = "entry"
    /\ \E n \in todo :
          /\ ~InterfaceExists(device, n)
          /\ todo' = todo \ {n}
          /\ lldp_interface_names' = lldp_interface_names \cup {n}
          /\ log' = IF non_existent
                    THEN Append(log, Note("warn_local", device, <<device, n>>, NoEntry))
                    ELSE log
          /\ done' = Finished(n, "no_local", Len(log))
    /\ UNCHANGED <<job, prevLog, run, pc, di, data_device_name, cables, ifcable, nextId,
                   napalm_lldp, non_existent, cur, old_cable_interfaces, oi,
                   startCables, kept, cleanupMark, ifaceVars>>

\* lines 115-122: the cable already exists
CableAlreadyCorrect ==
    /\ job = "cable" /\ pc = "entry"
    /\ \E n \in todo :
          /\ InterfaceExists(device, n)
          /\ ifcable[<<device, n>>] # NoCable
          /\ PeerMatches(<<device, n>>, remote_of(n))
          /\ todo' = todo \ {n}
          /\ lldp_interface_names' = lldp_interface_names \cup {n}
          /\ done' = Finished(n, "correct", Len(log))
    /\ UNCHANGED <<job, prevLog, run, pc, di, log, data_device_name, cables, ifcable, nextId,
                   napalm_lldp, non_existent, cur, old_cable_interfaces, oi,
                   startCables, kept, cleanupMark, ifaceVars>>

\* lines 126-137: Device.DoesNotExist
RemoteDeviceNotFound ==
    /\ job = "cable" /\ pc = "entry"
    /\ \E n \in todo :
          /\ InterfaceExists(device, n)
          /\ ifcable[<<device, n>>] = NoCable \/ delete_cable(<<device, n>>, remote_of(n))
          /\ ~DeviceExists(remote_of(n)[1])
          /\ todo' = todo \ {n}
          /\ lldp_interface_names' = lldp_interface_names \cup {n}
          /\ log' = IF non_existent
                    THEN Append(log, Note("info_device", device, <<device, n>>, remote_of(n)))
                    ELSE log
          /\ done' = Finished(n, "no_remote", Len(log))
          /\ kept' = IF ifcable[<<device, n>>] = NoCable THEN kept
                     ELSE kept \cup {ifcable[<<device, n>>]}
    /\ UNCHANGED <<job, prevLog, run, pc, di, data_device_name, cables, ifcable, nextId,
                   napalm_lldp, non_existent, cur, old_cable_interfaces, oi,
                   startCables, cleanupMark, ifaceVars>>

\* lines 126-130, 138-144: Interface.DoesNotExist
RemoteInterfaceNotFound ==
    /\ job = "cable" /\ pc = "entry"
    /\ \E n \in todo :
          /\ InterfaceExists(device, n)
          /\ ifcable[<<device, n>>] = NoCable \/ delete_cable(<<device, n>>, remote_of(n))
          /\ DeviceExists(remote_of(n)[1])
          /\ ~InterfaceExists(remote_of(n)[1], remote_of(n)[2])
          /\ todo' = todo \ {n}
          /\ lldp_interface_names' = lldp_interface_names \cup {n}
          /\ log' = IF non_existent
                    THEN Append(log, Note("info_interface", device, <<device, n>>, remote_of(n)))
                    ELSE log
          /\ done' = Finished(n, "no_remote", Len(log))
          /\ kept' = IF ifcable[<<device, n>>] = NoCable THEN kept
                     ELSE kept \cup {ifcable[<<device, n>>]}
    /\ UNCHANGED <<job, prevLog, run, pc, di, data_device_name, cables, ifcable, nextId,
                   napalm_lldp, non_existent, cur, old_cable_interfaces, oi,
                   startCables, cleanupMark, ifaceVars>>

\* lines 146-156: delete the cable the device no longer reports
DeleteStaleCable ==
    /\ job = "cable" /\ pc = "entry"
    /\ \E n \in todo :
          LET i == <<device, n>> IN
          /\ InterfaceExists(device, n)
          /\ delete_cable(i, remote_of(n))
          /\ RemoteResolves(remote_of(n))
          /\ cables' = CablesAfterDelete(cables, ifcable[i])
          /\ ifcable' = IfcableAfterDelete(ifcable, ifcable[i])
          /\ log' = Append(log, Note("delete_stale", device, i, CablePeer(ifcable, i)))
          /\ cur' = n
          /\ done' = Finished(n, "deleted", Len(log))
          /\ todo' = todo \ {n}
          /\ lldp_interface_names' = lldp_interface_names \cup {n}
    /\ pc' = "create"
    /\ UNCHANGED <<job, prevLog, run, di, data_device_name, nextId, napalm_lldp, non_existent,
                   old_cable_interfaces, oi, startCables, kept, cleanupMark, ifaceVars>>

\* lines 158-177: save the new cable local <-> remote
SaveNewCable(n) ==
    LET c == NewCable(nextId, <<device, n>>, remote_of(n)) IN
    /\ cables' = CablesAfterSave(cables, c)
    /\ ifcable' = IfcableAfterSave(ifcable, c)
    /\ nextId' = nextId + 1
    /\ log' = Append(log, Note("create", device, <<device, n>>, remote_of(n)))

\* lines 158-177 when the local interface had no cable
CreateCable ==
    /\ job = "cable" /\ pc = "entry"
    /\ \E n \in todo :
          /\ InterfaceExists(device, n)
          /\ ifcable[<<device, n>>] = NoCable
          /\ RemoteResolves(remote_of(n))
          /\ SaveNewCable(n)
          /\ todo' = todo \ {n}
          /\ lldp_interface_names' = lldp_interface_names \cup {n}
          /\ done' = Finished(n, "created", Len(log))
    /\ UNCHANGED <<job, prevLog, run, pc, di, data_device_name, napalm_lldp, non_existent, cur,
                   old_cable_interfaces, oi, startCables, kept, cleanupMark, ifaceVars>>

\* lines 158-177 after the stale cable was deleted at line 148
CreateReplacement ==
    /\ job = "cable" /\ pc = "create"
    /\ SaveNewCable(cur)
    /\ done' = [done EXCEPT !.outcome = "replaced"]
    /\ cur' = NoEntry
    /\ pc' = "entry"
    /\ UNCHANGED <<job, prevLog, run, di, data_device_name, napalm_lldp, non_existent, todo,
                   lldp_interface_names, old_cable_interfaces, oi,
                   startCables, kept, cleanupMark, ifaceVars>>

----------------------------------------------------------------------------
(* CableUpdate.remove_old_cables                                           *)

\* A cleanup query that forgets .exclude(name__in=lldp_interface_names).
OldCableInterfacesNoExclude(d, names, fk) ==
    LET keep == SelectSeq(NameOrder,
                    LAMBDA n : <<d, n>> \in DOMAIN fk /\ fk[<<d, n>>] # NoCable)
    IN [k \in 1..Len(keep) |-> <<<<d, keep[k]>>, fk[<<d, keep[k]>>]>>]

\* lines 195-197: interfaces of the device with a cable whose name LLDP did
\* not list, each with the cable reference it had when the query ran
OldCableInterfaces(d, names, fk) ==
    LET keep == SelectSeq(NameOrder,
                    LAMBDA n : /\ <<d, n>> \in DOMAIN fk
                               /\ fk[<<d, n>>] # NoCable
                               /\ n \notin names)
    IN [k \in 1..Len(keep) |-> <<<<d, keep[k]>>, fk[<<d, keep[k]>>]>>]

\* line 178, 195-199: the report is exhausted, the cleanup query runs
StartCleanup ==
    /\ job = "cable" /\ pc = "entry" /\ todo = {}
    /\ old_cable_interfaces' = OldCableInterfaces(device, lldp_interface_names, ifcable)
    /\ oi' = 1
    /\ cleanupMark' = Len(log)
    /\ pc' = "cleanup"
    /\ UNCHANGED <<job, prevLog, run, di, log, data_device_name, cables, ifcable, nextId,
                   napalm_lldp, non_existent, todo, lldp_interface_names, cur, done,
                   startCables, kept, ifaceVars>>

\* A cleanup loop without the try/except around oc_interface.cable.
CableResolvesUnguarded(c) == TRUE

\* lines 200-204: oc_interface.cable still resolves (no exception)
CableResolves(c) == c \in cables

CleanupSkip ==
    /\ job = "cable" /\ pc = "cleanup" /\ oi <= Len(old_cable_interfaces)
    /\ ~CableResolves(old_cable_interfaces[oi][2])
    /\ oi' = oi + 1
    /\ UNCHANGED <<job, prevLog, run, pc, di, log, data_device_name, cables, ifcable, nextId,
                   napalm_lldp, non_existent, todo, lldp_interface_names, cur,
                   old_cable_interfaces, done, startCables, kept, cleanupMark, ifaceVars>>

\* lines 206-214
CleanupDelete ==
    /\ job = "cable" /\ pc = "cleanup" /\ oi <= Len(old_cable_interfaces)
    /\ LET old_cable == old_cable_interfaces[oi][2] IN
          /\ CableResolves(old_cable)
          /\ cables' = CablesAfterDelete(cables, old_cable)
          /\ ifcable' = IfcableAfterDelete(ifcable, old_cable)
          /\ log' = Append(log, Note("delete_old", device, old_cable[2], old_cable[3]))
    /\ oi' = oi + 1
    /\ UNCHANGED <<job, prevLog, run, pc, di, data_device_name, nextId, napalm_lldp, non_existent,
                   todo, lldp_interface_names, cur, old_cable_interfaces, done,
                   startCables, kept, cleanupMark, ifaceVars>>

\* the cleanup loop ends; the outer loop goes on
EndCleanup ==
    /\ job = "cable" /\ pc = "cleanup" /\ oi > Len(old_cable_interfaces)
    /\ pc' = "devices"
    /\ di' = di + 1
    /\ UNCHANGED <<job, prevLog, run, log, data_device_name, cables, ifcable, nextId,
                   napalm_lldp, non_existent, todo, lldp_interface_names, cur,
                   old_cable_interfaces, oi, done, startCables, kept, cleanupMark, ifaceVars>>

\* line 180: return output
FinishCableRun ==
    /\ job = "cable" /\ pc = "devices" /\ di > Len(devices)
    /\ pc' = "done"
    /\ UNCHANGED <<job, prevLog, run, di, log, data_device_name, cableVars, ifaceVars>>

\* The script is run again, with the same data and the same live reports.
RunCableAgain ==
    /\ job = "cable" /\ pc = "done" /\ run < MaxRuns
    /\ run' = run + 1
    /\ pc' = "devices"
    /\ di' = 1
    /\ log' = <<>>
    /\ prevLog' = log
    /\ startCables' = cables
    /\ done' = NoDone
    /\ kept' = {}
    /\ cleanupMark' = 0
    /\ UNCHANGED <<job, data_device_name, cables, ifcable, nextId, napalm_lldp,
                   non_existent, todo, lldp_interface_names, cur,
                   old_cable_interfaces, oi, ifaceVars>>

NextCable ==
    \/ NextDevice
    \/ LocalNotFound
    \/ CableAlreadyCorrect
    \/ RemoteDeviceNotFound
    \/ RemoteInterfaceNotFound
    \/ DeleteStaleCable
    \/ CreateCable
    \/ CreateReplacement
    \/ StartCleanup
    \/ CleanupSkip
    \/ CleanupDelete
    \/ EndCleanup
    \/ FinishCableRun
    \/ RunCableAgain

SpecCable == InitCable /\ [][NextCable]_vars

----------------------------------------------------------------------------
(* InterfaceUpdate.run                                                     *)

\* Python's None, as distinct from the string "None".
PyNone == "<None>"

\* InterfaceTypeChoices.TYPE_OTHER
TYPE_OTHER == "other"

\* Interface rows the interface job's store can hold: D's "eth0" and "Vlan1",
\* E's "eth0".
IfaceSlots == {<<"D", "eth0">>, <<"D", "Vlan1">>, <<"E", "eth0">>}

SnapshotNames(d) == {s[2] : s \in {t \in IfaceSlots : t[1] = d}}

\* Rows an interface can have before the job runs.
PersistedRows ==
    {[description |-> "up", mac_address |-> PyNone, type |-> "1000base-t",
      cable |-> "cable-7"],
     [description |-> "down", mac_address |-> "11:22:33:44:55:66", type |-> TYPE_OTHER,
      cable |-> PyNone]}

\* What get_interfaces can report for one interface.
LiveEntries ==
    {[description |-> "up",   mac_address |-> "AA:BB:CC:DD:EE:FF"],
     [description |-> "down", mac_address |-> "AA:BB:CC:DD:EE:FF"],
     [description |-> "up",   mac_address |-> "None"],
     [description |-> "down", mac_address |-> "Unspecified"],
     [description |-> "up",   mac_address |-> ""]}

Snapshots(d) == UNION {[S -> LiveEntries] : S \in SUBSET SnapshotNames(d)}

\* Values of data["ignore_interfaces"].
IgnorePatterns == {"", "Vlan.*", "eth0"}

\* re.match(pattern, name): the pattern matches at the start of the name.
\* The empty pattern matches every name.
ReMatch(pattern, name) ==
    CASE pattern = ""       -> TRUE
      [] pattern = "Vlan.*" -> name \in {"Vlan1"}
      [] pattern = "eth0"   -> name \in {"eth0"}
      [] OTHER              -> FALSE

\* A blacklist test without the check for the empty pattern.
BlacklistedNoEmptyCheck(pattern, name) == ReMatch(pattern, name)

\* lines 91-93: the interface is blacklisted
Blacklisted(pattern, name) == pattern # "" /\ ReMatch(pattern, name)

\* lines 98-104
NormalizedMac(mac_address) ==
    IF mac_address = "None" /\ mac_address = "Unspecified" /\ mac_address = ""
    THEN PyNone
    ELSE mac_address

\* lines 108-116: the row get_or_create creates from the defaults
CreatedRow(live) ==
    [description |-> live.description, mac_address |-> NormalizedMac(live.mac_address),
     type |-> TYPE_OTHER, cable |-> PyNone]

\* lines 108-109: get_or_create finds the interface of this device by name
Persisted(rows, d, n) == <<d, n>> \in DOMAIN rows

\* An update that assigns the description but never saves it.
UpdatedRowNotSaved(row, napalm_description) == row

\* An update that also applies the defaults of get_or_create.
UpdatedRowWithDefaults(row, napalm_description) ==
    [row EXCEPT !.description = napalm_description, !.type = TYPE_OTHER]

\* lines 122-125: the description is overwritten, nothing else
UpdatedRow(row, napalm_description) == [row EXCEPT !.description = napalm_description]

CableIdle ==
    /\ cables = {}
    /\ ifcable = <<>>
    /\ nextId = 1
    /\ napalm_lldp = <<>>
    /\ non_existent = FALSE
    /\ todo = {}
    /\ lldp_interface_names = {}
    /\ cur = NoEntry
    /\ old_cable_interfaces = <<>>
    /\ oi = 1
    /\ done = NoDone
    /\ startCables = {}
    /\ kept = {}
    /\ cleanupMark = 0

InitInterface ==
    /\ job = "interface"
    /\ run = 1
    /\ pc = "devices"
    /\ di = 1
    /\ log = <<>>
    /\ prevLog = <<>>
    /\ data_device_name \in SUBSET Devices
    /\ netbox \in UNION {[S -> PersistedRows] : S \in SUBSET IfaceSlots}
    /\ napalm_interfaces \in
          {r \in [Devices -> UNION {Snapshots(d) : d \in Devices}] :
              \A d \in Devices : /\ r[d] \in Snapshots(d)
                                 /\ d \notin data_device_name => r[d] = <<>>}
    /\ ignore_interfaces \in IgnorePatterns
    /\ itodo = {}
    /\ startNetbox = netbox
    /\ CableIdle

live(n) == napalm_interfaces[device][n]

\* lines 85-89: the outer loop takes the next device and fetches its snapshot
NextInterfaceDevice ==
    /\ job = "interface" /\ pc = "devices" /\ di <= Len(devices)
    /\ pc' = "iface"
    /\ itodo' = DOMAIN napalm_interfaces[device]
    /\ UNCHANGED <<job, prevLog, run, di, log, data_device_name, cableVars,
                   netbox, napalm_interfaces, ignore_interfaces, startNetbox>>

\* lines 90-94: blacklisted interface
SkipIgnored ==
    /\ job = "interface" /\ pc = "iface"
    /\ \E n \in itodo :
          /\ Blacklisted(ignore_interfaces, n)
          /\ itodo' = itodo \ {n}
    /\ UNCHANGED <<job, prevLog, run, pc, di, log, data_device_name, cableVars,
                   netbox, napalm_interfaces, ignore_interfaces, startNetbox>>

\* lines 96-120: get_or_create creates the interface
CreateInterface ==
    /\ job = "interface" /\ pc = "iface"
    /\ \E n \in itodo :
          /\ ~Blacklisted(ignore_interfaces, n)
          /\ ~Persisted(netbox, device, n)
          /\ netbox' = (<<device, n>> :> CreatedRow(live(n))) @@ netbox
          /\ log' = Append(log, Note("created", device, <<device, n>>, NoEntry))
          /\ itodo' = itodo \ {n}
    /\ UNCHANGED <<job, prevLog, run, pc, di, data_device_name, cableVars,
                   napalm_interfaces, ignore_interfaces, startNetbox>>

\* lines 121-128: the interface exists and its description differs
UpdateDescription ==
    /\ job = "interface" /\ pc = "iface"
    /\ \E n \in itodo :
          /\ ~Blacklisted(ignore_interfaces, n)
          /\ Persisted(netbox, device, n)
          /\ netbox[<<device, n>>].description # live(n).description
          /\ netbox' = [netbox EXCEPT ![<<device, n>>] = UpdatedRow(@, live(n).description)]
          /\ log' = Append(log, Note("updated", device, <<device, n>>,
                                     <<netbox[<<device, n>>].description,
                                       live(n).description>>))
          /\ itodo' = itodo \ {n}
    /\ UNCHANGED <<job, prevLog, run, pc, di, data_device_name, cableVars,
                   napalm_interfaces, ignore_interfaces, startNetbox>>

\* lines 121-122: the interface exists and its description is the live one
LeaveInterface ==
    /\ job = "interface" /\ pc = "iface"
    /\ \E n \in itodo :
          /\ ~Blacklisted(ignore_interfaces, n)
          /\ Persisted(netbox, device, n)
          /\ netbox[<<device, n>>].description = live(n).description
          /\ itodo' = itodo \ {n}
    /\ UNCHANGED <<job, prevLog, run, pc, di, log, data_device_name, cableVars,
                   netbox, napalm_interfaces, ignore_interfaces, startNetbox>>

\* the inner loop ends; the outer loop goes on
EndInterfaceDevice ==
    /\ job = "interface" /\ pc = "iface" /\ itodo = {}
    /\ pc' = "devices"
    /\ di' = di + 1
    /\ UNCHANGED <<job, prevLog, run, log, data_device_name, cableVars, ifaceVars>>

\* line 130: return output
FinishInterfaceRun ==
    /\ job = "interface" /\ pc = "devices" /\ di > Len(devices)
    /\ pc' = "done"
    /\ UNCHANGED <<job, prevLog, run, di, log, data_device_name, cableVars, ifaceVars>>

\* The script is run again, with the same data and the same live snapshot.
RunInterfaceAgain ==
    /\ job = "interface" /\ pc = "done" /\ run < MaxRuns
    /\ run' = run + 1
    /\ pc' = "devices"
    /\ di' = 1
    /\ log' = <<>>
    /\ prevLog' = log
    /\ startNetbox' = netbox
    /\ UNCHANGED <<job, data_device_name, cableVars,
                   netbox, napalm_interfaces, ignore_interfaces, itodo>>

NextInterface ==
    \/ NextInterfaceDevice
    \/ SkipIgnored
    \/ CreateInterface
    \/ UpdateDescription
    \/ LeaveInterface
    \/ EndInterfaceDevice
    \/ FinishInterfaceRun
    \/ RunInterfaceAgain

SpecInterface == InitInterface /\ [][NextInterface]_vars

----------------------------------------------------------------------------
(* Properties of the cable reconciler                                      *)

RunFinished == pc = "done"

\* The device's neighbor entries and its cleanup pass are all done.
DeviceProcessed == pc = "cleanup" /\ oi > Len(old_cable_interfaces)

OneCablePerInterface(cs) == \A i \in AllInterfaces : Cardinality({c \in cs : i \in Ends(c)}) <= 1

\* Notifications the current neighbor entry / cleanup pass has emitted.
Since(mark) == SubSeq(log, mark + 1, Len(log))

MutationKinds == {"create", "delete_stale", "delete_old"}

\* C1: after any run of the cable reconciler, started from a store in which
\* every interface is an endpoint of at most one cable, every interface is
\* still an endpoint of at most one cable.
C1_OneCablePerInterfaceAfterRun ==
    (job = "cable" /\ RunFinished /\ OneCablePerInterface(startCables))
        => OneCablePerInterface(cables)

\* C2: when the run has finished, no interface of a processed device whose
\* name was absent from that device's neighbor report holds a cable.
C2_NoCableOnUnreportedInterface ==
    (job = "cable" /\ RunFinished) =>
        \A i \in AllInterfaces :
            (i[1] \in data_device_name /\ i[2] \notin DOMAIN napalm_lldp[i[1]])
                => ifcable[i] = NoCable

\* C3: an entry whose local interface holds a cable to another far end than
\* the reported one, with the reported remote resolving, first deletes the old
\* cable (one "delete" notification, no new cable yet), then creates the cable
\* local <-> reported remote (one "create" notification); afterwards the
\* local interface's only cable is the one to the reported remote interface.
C3_ReplaceDeletesThenCreates ==
    /\ (job = "cable" /\ pc = "create") =>
          /\ done.old \notin cables
          /\ ifcable[done.local] = NoCable
          /\ Since(done.mark) =
                <<Note("delete_stale", done.local[1], done.local,
                       CablePeer([x \in {done.local} |-> done.old], done.local))>>
    /\ (job = "cable" /\ pc = "entry" /\ done.outcome = "replaced") =>
          /\ done.old \notin cables
          /\ Since(done.mark) =
                <<Note("delete_stale", done.local[1], done.local,
                       CablePeer([x \in {done.local} |-> done.old], done.local)),
                  Note("create", done.local[1], done.local, done.remote)>>
          /\ ifcable[done.local] \in cables
          /\ ifcable[done.local][2] = done.local
          /\ ifcable[done.local][3] = done.remote
          /\ CablesOf(done.local) = {ifcable[done.local]}

\* An entry whose remote device or remote interface is not in the store
\* mutates nothing (a mismatched cable on its local interface is still there
\* when the entry is done) and, with the warning flag false, notifies nothing.
C4_SkippedEntry ==
    (job = "cable" /\ pc = "entry" /\ done.outcome = "no_remote") =>
        /\ cables = done.rows
        /\ ifcable = done.refs
        /\ (done.old # NoCable => done.old \in cables /\ done.old \in kept)
        /\ (~non_existent => Since(done.mark) = <<>>)
        /\ (non_existent => Len(Since(done.mark)) = 1
                            /\ Since(done.mark)[1].kind \notin MutationKinds)

\* Every entry of the report is processed, skipped ones notwithstanding.
C4_AllEntriesProcessed ==
    (job = "cable" /\ DeviceProcessed) =>
        (todo = {} /\ lldp_interface_names = DOMAIN napalm_lldp[device])

\* C4 (as claimed): an entry whose remote device or remote interface is not in
\* the store mutates nothing and, with the warning flag false, notifies
\* nothing; the remaining entries are still processed; and a mismatched cable
\* on the entry's local interface is still present after the device has been
\* fully processed, cleanup pass included.
C4_Original_SkippedCableSurvivesDevice ==
    /\ C4_SkippedEntry
    /\ C4_AllEntriesProcessed
    /\ (job = "cable" /\ DeviceProcessed) => \A c \in kept : c \in cables

\* C4 (amended): as above, except that the mismatched cable is still present
\* after the device has been fully processed whenever its far end is an
\* interface of another device (a far end on the same device can have the
\* cable deleted through its own entry or through the cleanup pass).
C4_SkippedCableSurvivesUnlessSameDevice ==
    /\ C4_SkippedEntry
    /\ C4_AllEntriesProcessed
    /\ (job = "cable" /\ DeviceProcessed) =>
          \A c \in kept : (\E e \in Ends(c) : e[1] # device) => c \in cables

C4_Witness ==
    /\ job = "cable" /\ DeviceProcessed /\ ~non_existent
    /\ Cardinality(DOMAIN napalm_lldp[device]) = 2
    /\ \E c \in kept : (\E e \in Ends(c) : e[1] # device) /\ c \in cables
    /\ \E n \in DOMAIN napalm_lldp[device] :
          RemoteResolves(napalm_lldp[device][n]) /\ InterfaceExists(device, n)
    /\ \E k \in 1..Len(log) : log[k].kind = "create"

\* C9: in the cleanup pass every cable the query selected is deleted exactly
\* once with exactly one "deleting old cable" notification, also a cable that
\* the query selected twice because both its endpoints are unreported
\* interfaces of the device: its second endpoint is skipped without a delete
\* or a notification, and the pass goes on to the other stale cables.
OldCables == {old_cable_interfaces[k][2] : k \in 1..Len(old_cable_interfaces)}

OldNotes(c) ==
    {k \in (cleanupMark + 1)..Len(log) : log[k] = Note("delete_old", device, c[2], c[3])}

C9_CleanupDeletesEachCableOnce ==
    (job = "cable" /\ DeviceProcessed) =>
        /\ \A c \in OldCables : c \notin cables /\ Cardinality(OldNotes(c)) = 1
        /\ Len(log) - cleanupMark = Cardinality(OldCables)
        /\ \A k \in (cleanupMark + 1)..Len(log) : log[k].kind = "delete_old"

C9_Witness ==
    /\ job = "cable" /\ DeviceProcessed
    /\ \E j, k \in 1..Len(old_cable_interfaces) :
          /\ j < k
          /\ old_cable_interfaces[j][2] = old_cable_interfaces[k][2]
          /\ \E m \in 1..Len(old_cable_interfaces) :
                m > k /\ old_cable_interfaces[m][2] # old_cable_interfaces[k][2]
    /\ Len(log) - cleanupMark = 2

\* C10: a second run with the same selection and the same reports creates no
\* cable, deletes no cable and emits no create/delete notification.
C10_SecondRunIsFixedPoint ==
    (job = "cable" /\ run = 2 /\ RunFinished) =>
        /\ cables = startCables
        /\ \A k \in 1..Len(log) : log[k].kind \notin MutationKinds

----------------------------------------------------------------------------
(* Properties of the interface reconciler                                  *)

\* Snapshot entries of a device whose name does not match the ignore pattern
\* (all of them when the pattern is empty).
Wanted(d) ==
    {n \in DOMAIN napalm_interfaces[d] :
        ignore_interfaces = "" \/ ~ReMatch(ignore_interfaces, n)}

InterfacesOf(rows, d) == {s \in DOMAIN rows : s[1] = d}

NotesAbout(kind, slot) == {k \in 1..Len(log) : log[k].kind = kind /\ log[k].a = slot}

EmptyMacLiterals == {"None", "Unspecified", ""}

C6_SecondInterfaceRunChangesNothing ==
    (job = "interface" /\ run >= 2) => (log = <<>> /\ netbox = startNetbox)

C6_Witness ==
    /\ job = "interface" /\ run = 2 /\ RunFinished
    /\ \E j, k \in 1..Len(prevLog) : prevLog[j].kind = "created" /\ prevLog[k].kind = "updated"

\* C7: an interface created from a snapshot entry whose MAC address is "None",
\* "Unspecified" or "" is stored with a null MAC address, never with one of
\* those literals.
C7_EmptyMacStoredAsNull ==
    job = "interface" =>
        \A s \in DOMAIN netbox \ DOMAIN startNetbox :
            /\ netbox[s].mac_address \notin EmptyMacLiterals
            /\ napalm_interfaces[s[1]][s[2]].mac_address \in EmptyMacLiterals
                  => netbox[s].mac_address = PyNone

\* C8: the job deletes no interface and never changes the MAC address, type
\* or cable of an interface that existed, also when the live MAC address
\* differs; when the run has finished an existing interface that is in the
\* snapshot of a selected device, not ignored, with a live description other
\* than the persisted one has the live description and exactly one "updated"
\* notification; every other existing interface is as it was, with none.
C8_OnlyDescriptionOfExistingChanges ==
    job = "interface" =>
        \A s \in DOMAIN startNetbox :
            /\ s \in DOMAIN netbox
            /\ netbox[s].mac_address = startNetbox[s].mac_address
            /\ netbox[s].type = startNetbox[s].type
            /\ netbox[s].cable = startNetbox[s].cable
            /\ NotesAbout("created", s) = {}
            /\ RunFinished =>
                  IF /\ s[1] \in data_device_name
                     /\ s[2] \in Wanted(s[1])
                     /\ startNetbox[s].description # napalm_interfaces[s[1]][s[2]].description
                  THEN /\ netbox[s].description = napalm_interfaces[s[1]][s[2]].description
                       /\ Cardinality(NotesAbout("updated", s)) = 1
                       /\ \A k \in NotesAbout("updated", s) :
                             log[k].b = <<startNetbox[s].description, netbox[s].description>>
                  ELSE /\ netbox[s] = startNetbox[s]
                       /\ NotesAbout("updated", s) = {}

C8_Witness ==
    /\ job = "interface" /\ RunFinished
    /\ \E s \in DOMAIN startNetbox :
          /\ s[1] \in data_device_name /\ s[2] \in Wanted(s[1])
          /\ netbox[s].description # startNetbox[s].description
          /\ napalm_interfaces[s[1]][s[2]].mac_address # startNetbox[s].mac_address
          /\ NotesAbout("updated", s) # {}
    /\ \E s \in DOMAIN startNetbox :
          /\ s[1] \in data_device_name
          /\ s[2] \in DOMAIN napalm_interfaces[s[1]] \ Wanted(s[1])
          /\ startNetbox[s].description # napalm_interfaces[s[1]][s[2]].description

====
